---- MODULE Spec2Model ----
(***************************************************************************)
(* The room server of src/index.js (lines 1-516): the registry gameRooms,  *)
(* the per-connection binding playerCurrentGameId and one action per       *)
(* socket event handler.  Every handler runs to completion (single event   *)
(* loop), so each handler is one atomic action.  A handler is written as a  *)
(* function On<Event> of the current state and the event's arguments that  *)
(* gives the registry, the sender's binding and the emissions it ends with;*)
(* the action of the same event installs that result.                      *)
(***************************************************************************)
EXTENDS Integers, Sequences, FiniteSets, TLC

\* ---- bounds of the model ----
\* connections ever opened
MaxSockets == 3
\* game ids generateGameId can draw
MaxRooms == 2
\* the numbers a client sends are 0..MaxNum
MaxNum == 1
\* client events handled in one behaviour
MaxEvents == 6

\* ---- values ----
Null == 0
Sockets == 1..MaxSockets
GameIds == 1..MaxRooms
\* the display name a connection sends: one per connection
Names == <<"ann", "bob", "cat", "dan", "eve", "fay">>
Username(s) == Names[s]
Numbers == 0..MaxNum

ErrAlreadyInGame == "You are already in a game. Please leave or reset it first."
ErrNotFound == "Game not found. Please check the ID."
ErrFull == "Game room is full (max 2 players)."
ErrStarted == "Game has already started."
ErrNotInRoom == "Not in a game room."
ErrNeedTwo == "Need at least 2 players to start the game."
ErrNotActive == "Game not active or not started."
ErrNotYourTurn == "It is not your turn."
ErrAlreadyCalled == "Number already called."
ErrCannotDeclare == "Cannot declare win. Game not active or already won."
ErrNoRoomRequest == "Not in a game room to request a new match."
ErrInProgressRequest == "Game is still in progress. Cannot request new match."
ErrNeedTwoRequest == "Need two players to request a new match."
ErrRequestPending == "A new match request is already pending."
ErrNoOpponent == "Opponent not found in room."
ErrNoAccept == "No pending new match request to accept or you are the requester."
ErrNoDecline == "No pending new match request to decline or you are the requester."
ErrNoRoomMessage == "Not in a game room to send messages."
ErrNoRoomReset == "Not in a game room to reset."
ErrInProgressReset == "Game is in progress. Please wait for a winner or disconnect."
ErrPendingReset == "A new match request is pending. Please respond or wait."

VARIABLES
    gameRooms,            \* the registry: game id -> room object
    playerCurrentGameId,  \* per connection: the game id it is bound to, or Null
    connected,            \* the connections that are live
    nextSocket,           \* the id the next connection gets
    events                \* how many client events have been handled

vars == <<gameRooms, playerCurrentGameId, connected, nextSocket, events>>

\* ---- room objects ----
NoRequest == [requesterId |-> Null, requesterUsername |-> ""]

NewGameRoom(gameId) ==
    [gameId |-> gameId,
     players |-> <<>>,
     gameStarted |-> FALSE,
     currentTurnPlayerId |-> Null,
     markedNumbers |-> <<>>,
     turnIndex |-> 0,
     winnerId |-> Null,
     draw |-> FALSE,
     pendingNewMatchRequest |-> NoRequest]

NewPlayer(id, username, room) ==
    [id |-> id, username |-> username, playerNumber |-> Len(room.players) + 1]

PlayerIds(room) == {room.players[i].id : i \in DOMAIN room.players}

\* mutant: only the last element is compared
IncludesLastOnly(seq, x) == Len(seq) > 0 /\ seq[Len(seq)] = x

Includes(seq, x) == \E i \in DOMAIN seq : seq[i] = x

\* mutant: a filter that removes nobody
FilterOutNobody(players, id) == players

\* players.filter(p => p.id !== id)
FilterOut(players, id) == SelectSeq(players, LAMBDA p : p.id # id)

\* players.findIndex(p => p.id === id), 0-based, -1 when absent
FindIndex(players, id) ==
    IF \E i \in DOMAIN players : players[i].id = id
    THEN (CHOOSE i \in DOMAIN players :
              players[i].id = id /\ \A j \in 1..(i - 1) : players[j].id # id) - 1
    ELSE -1

\* the username of players.find(p => p.id === id), or the fallback
UsernameOf(players, id, fallback) ==
    IF FindIndex(players, id) = -1 THEN fallback
    ELSE players[FindIndex(players, id) + 1].username

\* ---- emissions ----
ToSocket(s, ev, data) == [ev |-> ev, sock |-> s, room |-> Null, data |-> data]
ToRoom(g, ev, data) == [ev |-> ev, sock |-> Null, room |-> g, data |-> data]
GameError(s, text) == <<ToSocket(s, "gameError", text)>>

Snapshot(room) ==
    [gameId |-> room.gameId,
     players |-> room.players,
     gameStarted |-> room.gameStarted,
     currentTurnPlayerId |-> room.currentTurnPlayerId,
     markedNumbers |-> room.markedNumbers,
     winnerId |-> room.winnerId,
     draw |-> room.draw,
     pendingNewMatchRequest |-> room.pendingNewMatchRequest]

\* mutant: an emitGameState that sends nothing
EmitGameStateSilent(st, gameId) == st

\* A handler works on st = [rooms, out]: the registry and the emissions so far.
EmitGameState(st, gameId) ==
    IF gameId \notin DOMAIN st.rooms THEN st
    ELSE [st EXCEPT !.out = Append(@, ToRoom(gameId, "gameState", Snapshot(st.rooms[gameId])))]

\* mutant: the index is not incremented
NextTurnIndexStuck(room) == room.turnIndex % Len(room.players)

NextTurnIndex(room) == (room.turnIndex + 1) % Len(room.players)

AdvanceTurn(st, gameId) ==
    LET room == st.rooms[gameId] IN
    IF Len(room.players) = 0
    THEN [st EXCEPT !.rooms[gameId].currentTurnPlayerId = Null]
    ELSE LET ti == NextTurnIndex(room) IN
         EmitGameState(
             [st EXCEPT !.rooms[gameId].turnIndex = ti,
                        !.rooms[gameId].currentTurnPlayerId = room.players[ti + 1].id],
             gameId)

\* resetGameRound without the renumbering of the seats
ClearedRoundKeepsSeats(room) ==
    [room EXCEPT !.gameStarted = FALSE,
                 !.currentTurnPlayerId = Null,
                 !.markedNumbers = <<>>,
                 !.turnIndex = 0,
                 !.winnerId = Null,
                 !.draw = FALSE,
                 !.pendingNewMatchRequest = NoRequest]

\* mutant: a reset that leaves the marked numbers in place
ClearedRoundKeepsNumbers(room) ==
    [room EXCEPT !.gameStarted = FALSE,
                 !.currentTurnPlayerId = Null,
                 !.turnIndex = 0,
                 !.winnerId = Null,
                 !.draw = FALSE,
                 !.pendingNewMatchRequest = NoRequest,
                 !.players = [i \in DOMAIN room.players |->
                                 [room.players[i] EXCEPT !.playerNumber = i]]]

ClearedRound(room) ==
    [room EXCEPT !.gameStarted = FALSE,
                 !.currentTurnPlayerId = Null,
                 !.markedNumbers = <<>>,
                 !.turnIndex = 0,
                 !.winnerId = Null,
                 !.draw = FALSE,
                 !.pendingNewMatchRequest = NoRequest,
                 !.players = [i \in DOMAIN room.players |->
                                 [room.players[i] EXCEPT !.playerNumber = i]]]

\* a reset that clears the round of every registered room
ResetGameRoundEverywhere(st, gameId) ==
    IF gameId \notin DOMAIN st.rooms THEN st
    ELSE EmitGameState(
             [rooms |-> [h \in DOMAIN st.rooms |-> ClearedRound(st.rooms[h])],
              out |-> Append(st.out, ToRoom(gameId, "gameReset", Null))],
             gameId)

ResetGameRound(st, gameId) ==
    IF gameId \notin DOMAIN st.rooms THEN st
    ELSE EmitGameState(
             [rooms |-> [st.rooms EXCEPT ![gameId] = ClearedRound(st.rooms[gameId])],
              out |-> Append(st.out, ToRoom(gameId, "gameReset", Null))],
             gameId)

DeleteRoom(st, gameId) ==
    [st EXCEPT !.rooms = [h \in (DOMAIN st.rooms) \ {gameId} |-> st.rooms[h]]]

Start == [rooms |-> gameRooms, out |-> <<>>]

\* what a handler ends with: the registry, the sender's playerCurrentGameId and
\* the emissions in order
Result(st, gameId) == [rooms |-> st.rooms, gameId |-> gameId, out |-> st.out]

\* a rejection that also forgets the sender's room
RejectUnbinds(s, text) ==
    [rooms |-> gameRooms, gameId |-> Null, out |-> GameError(s, text)]

\* a handler that only answers its sender with a gameError
Reject(s, text) ==
    [rooms |-> gameRooms, gameId |-> playerCurrentGameId[s], out |-> GameError(s, text)]

\* a handler that ends with the registry and emissions of st, binding unchanged
Commit(s, st) == Result(st, playerCurrentGameId[s])

\* the handler of an event of connection s runs to completion
Handle(s, res) ==
    /\ events < MaxEvents
    /\ gameRooms' = res.rooms
    /\ playerCurrentGameId' = [playerCurrentGameId EXCEPT ![s] = res.gameId]
    /\ events' = events + 1
    /\ UNCHANGED <<connected, nextSocket>>

Init ==
    /\ gameRooms = <<>>
    /\ playerCurrentGameId = [s \in Sockets |-> Null]
    /\ connected = {}
    /\ nextSocket = 1
    /\ events = 0

\* io.on('connection'): a new socket with a fresh id
Connect ==
    /\ nextSocket <= MaxSockets
    /\ connected' = connected \cup {nextSocket}
    /\ nextSocket' = nextSocket + 1
    /\ UNCHANGED <<gameRooms, playerCurrentGameId, events>>

\* a binding check that never finds the sender bound
AlreadyInGameNever(s) == FALSE

\* if (playerCurrentGameId): the connection's closure variable holds a room code
AlreadyInGame(s) == playerCurrentGameId[s] # Null

\* generateGameId without the retry on a collision
FreeGameIdsAny == GameIds

\* generateGameId: any id the registry does not hold
FreeGameIds == GameIds \ DOMAIN gameRooms

\* createGame, gameId being what generateGameId returned
OnCreateGame(s, username, gameId) ==
    IF AlreadyInGame(s)
    THEN Reject(s, ErrAlreadyInGame)
    ELSE LET newGameRoom == [NewGameRoom(gameId) EXCEPT
                                !.players = <<NewPlayer(s, username, NewGameRoom(gameId))>>]
             rooms1 == [h \in (DOMAIN gameRooms) \cup {gameId} |->
                           IF h = gameId THEN newGameRoom ELSE gameRooms[h]]
             st1 == EmitGameState([rooms |-> rooms1,
                                   out |-> <<ToSocket(s, "gameCreated", gameId)>>], gameId)
         IN Result([st1 EXCEPT !.out = Append(@, ToRoom(gameId, "userJoined", username))],
                   gameId)

CreateGame(s, username) ==
    IF AlreadyInGame(s)
    THEN Handle(s, OnCreateGame(s, username, Null))
    ELSE \E gameId \in FreeGameIds : Handle(s, OnCreateGame(s, username, gameId))

\* mutant: the capacity check off by one
JoinRoomFullOffByOne(room) == Len(room.players) > 2

\* mutant: a capacity check that never finds the room full
JoinRoomFullNever(room) == FALSE

JoinRoomFull(room) == Len(room.players) >= 2

OnJoinGame(s, gameId, username) ==
    IF AlreadyInGame(s)
    THEN Reject(s, ErrAlreadyInGame)
    ELSE IF gameId \notin DOMAIN gameRooms
    THEN Reject(s, ErrNotFound)
    ELSE IF JoinRoomFull(gameRooms[gameId])
    THEN Reject(s, ErrFull)
    ELSE IF gameRooms[gameId].gameStarted
    THEN Reject(s, ErrStarted)
    ELSE LET room == gameRooms[gameId]
             st1 == EmitGameState(
                        [rooms |-> [gameRooms EXCEPT ![gameId].players =
                                        Append(@, NewPlayer(s, username, room))],
                         out |-> <<ToSocket(s, "gameJoined", gameId)>>], gameId)
         IN Result([st1 EXCEPT !.out = Append(@, ToRoom(gameId, "userJoined", username))],
                   gameId)

JoinGame(s, gameId, username) == Handle(s, OnJoinGame(s, gameId, username))

\* Math.floor(Math.random() * players.length)
FirstTurnIndexes(room) == 0..(Len(room.players) - 1)

\* mutant: the drawn index is stored but the first player gets the turn
StartedRoundFirstPlayer(room, ti) ==
    [room EXCEPT !.gameStarted = TRUE,
                 !.winnerId = Null,
                 !.draw = FALSE,
                 !.pendingNewMatchRequest = NoRequest,
                 !.turnIndex = ti,
                 !.currentTurnPlayerId = room.players[1].id]

\* startGame without the line that clears draw
StartedRoundKeepsDraw(room, ti) ==
    [room EXCEPT !.gameStarted = TRUE,
                 !.winnerId = Null,
                 !.pendingNewMatchRequest = NoRequest,
                 !.turnIndex = ti,
                 !.currentTurnPlayerId = room.players[ti + 1].id]

\* mutant: startGame without the line that clears the pending request
StartedRoundKeepsRequest(room, ti) ==
    [room EXCEPT !.gameStarted = TRUE,
                 !.winnerId = Null,
                 !.draw = FALSE,
                 !.turnIndex = ti,
                 !.currentTurnPlayerId = room.players[ti + 1].id]

StartedRound(room, ti) ==
    [room EXCEPT !.gameStarted = TRUE,
                 !.winnerId = Null,
                 !.draw = FALSE,
                 !.pendingNewMatchRequest = NoRequest,
                 !.turnIndex = ti,
                 !.currentTurnPlayerId = room.players[ti + 1].id]

\* startGame, ti being what the random draw gave
OnStartGame(s, ti) ==
    LET gameId == playerCurrentGameId[s] IN
    IF gameId \notin DOMAIN gameRooms
    THEN Reject(s, ErrNotInRoom)
    ELSE IF gameRooms[gameId].gameStarted
    THEN Reject(s, ErrStarted)
    ELSE IF Len(gameRooms[gameId].players) < 2
    THEN Reject(s, ErrNeedTwo)
    ELSE Commit(s, EmitGameState(
                       [rooms |-> [gameRooms EXCEPT
                                      ![gameId] = StartedRound(gameRooms[gameId], ti)],
                        out |-> <<>>], gameId))

StartGame(s) ==
    LET gameId == playerCurrentGameId[s] IN
    IF gameId \in DOMAIN gameRooms
       /\ ~gameRooms[gameId].gameStarted
       /\ Len(gameRooms[gameId].players) >= 2
    THEN \E ti \in FirstTurnIndexes(gameRooms[gameId]) : Handle(s, OnStartGame(s, ti))
    ELSE Handle(s, OnStartGame(s, 0))

OnMarkNumber(s, number) ==
    LET gameId == playerCurrentGameId[s] IN
    IF gameId \notin DOMAIN gameRooms \/ ~gameRooms[gameId].gameStarted
    THEN Reject(s, ErrNotActive)
    ELSE IF gameRooms[gameId].currentTurnPlayerId # s
    THEN Reject(s, ErrNotYourTurn)
    ELSE IF Includes(gameRooms[gameId].markedNumbers, number)
    THEN Reject(s, ErrAlreadyCalled)
    ELSE LET st1 == [rooms |-> [gameRooms EXCEPT ![gameId].markedNumbers = Append(@, number)],
                     out |-> <<ToRoom(gameId, "numberMarked", number)>>]
             room1 == st1.rooms[gameId]
         IN Commit(s, IF room1.winnerId # Null \/ room1.draw
                      THEN st1
                      ELSE AdvanceTurn(st1, gameId))

MarkNumber(s, number) == Handle(s, OnMarkNumber(s, number))

\* markedNumbers[markedNumbers.length - 1]; undefined on an empty array
Undefined == -1
LastMarkedNumber(room) ==
    IF Len(room.markedNumbers) = 0 THEN Undefined
    ELSE room.markedNumbers[Len(room.markedNumbers)]

\* mutant: the guard without the test of gameStarted
DeclareWinBlockedOnDrawOnly(rooms, gameId) ==
    gameId \notin DOMAIN rooms \/ rooms[gameId].draw = TRUE

\* a declareWin that is let through in every registered room
DeclareWinBlockedNowhere(rooms, gameId) ==
    gameId \notin DOMAIN rooms

\* the guard of the early-return block of declareWin
DeclareWinBlocked(rooms, gameId) ==
    gameId \notin DOMAIN rooms \/ rooms[gameId].gameStarted = FALSE \/ rooms[gameId].draw = TRUE

\* inside the block: an earlier winner who is not the sender
DeclareWinIsCounterClaim(rooms, gameId, s) ==
    gameId \in DOMAIN rooms /\ rooms[gameId].winnerId # Null /\ rooms[gameId].winnerId # s

\* mutant: the draw replaces the recorded winner
DrawOutcomeDropsWinner(room) ==
    [room EXCEPT !.draw = TRUE, !.winnerId = Null, !.gameStarted = FALSE,
                 !.currentTurnPlayerId = Null]

DrawOutcome(room) ==
    [room EXCEPT !.draw = TRUE, !.gameStarted = FALSE, !.currentTurnPlayerId = Null]

\* mutant: recording the winner also empties the pool
WinOutcomeClearsNumbers(room, s) ==
    [room EXCEPT !.winnerId = s, !.gameStarted = FALSE, !.currentTurnPlayerId = Null,
                 !.markedNumbers = <<>>]

\* a win that is recorded without ending the round
WinOutcomeOnlyRecords(room, s) ==
    [room EXCEPT !.winnerId = s]

\* a win that also moves the turn index back to the first seat
WinOutcomeRewindsTurn(room, s) ==
    [room EXCEPT !.winnerId = s, !.gameStarted = FALSE, !.currentTurnPlayerId = Null,
                 !.turnIndex = 0]

WinOutcome(room, s) ==
    [room EXCEPT !.winnerId = s, !.gameStarted = FALSE, !.currentTurnPlayerId = Null]

\* declareWin of connection s on the registry rooms
DeclareWinIn(rooms, s) ==
    LET gameId == playerCurrentGameId[s] IN
    IF DeclareWinBlocked(rooms, gameId)
    THEN IF DeclareWinIsCounterClaim(rooms, gameId, s)
         THEN LET room1 == DrawOutcome(rooms[gameId]) IN
              Commit(s, EmitGameState(
                            [rooms |-> [rooms EXCEPT ![gameId] = room1],
                             out |-> <<ToRoom(gameId, "gameDraw",
                                              [number |-> LastMarkedNumber(room1)])>>],
                            gameId))
         ELSE [rooms |-> rooms, gameId |-> gameId, out |-> GameError(s, ErrCannotDeclare)]
    ELSE LET room1 == WinOutcome(rooms[gameId], s) IN
         Commit(s, EmitGameState(
                       [rooms |-> [rooms EXCEPT ![gameId] = room1],
                        out |-> <<ToRoom(gameId, "playerDeclaredWin",
                                         [winnerId |-> s,
                                          winningUsername |->
                                              UsernameOf(room1.players, s, "Unknown Player")])>>],
                       gameId))

OnDeclareWin(s) == DeclareWinIn(gameRooms, s)

DeclareWin(s) == Handle(s, OnDeclareWin(s))

\* players.find(p => p.id !== s): the first player that is not the sender
OpponentIndex(players, s) ==
    IF \E i \in DOMAIN players : players[i].id # s
    THEN CHOOSE i \in DOMAIN players :
             players[i].id # s /\ \A j \in 1..(i - 1) : players[j].id = s
    ELSE 0

\* a request that is never found pending
RequestPendingNever(room) == FALSE

\* gameRoom.pendingNewMatchRequest is set (not null)
RequestPending(room) == room.pendingNewMatchRequest # NoRequest

\* requestNewMatch of connection s on the registry rooms
RequestNewMatchIn(rooms, s) ==
    LET gameId == playerCurrentGameId[s]
        Refuse(text) == [rooms |-> rooms, gameId |-> gameId, out |-> GameError(s, text)]
    IN
    IF gameId \notin DOMAIN rooms
    THEN Refuse(ErrNoRoomRequest)
    ELSE IF rooms[gameId].gameStarted
    THEN Refuse(ErrInProgressRequest)
    ELSE IF Len(rooms[gameId].players) < 2
    THEN Refuse(ErrNeedTwoRequest)
    ELSE IF RequestPending(rooms[gameId])
    THEN Refuse(ErrRequestPending)
    ELSE LET players == rooms[gameId].players
             ri == FindIndex(players, s)
             oi == OpponentIndex(players, s)
         IN IF ri # -1 /\ oi # 0
            THEN LET request == [requesterId |-> players[ri + 1].id,
                                 requesterUsername |-> players[ri + 1].username]
                 IN Commit(s, EmitGameState(
                                  [rooms |-> [rooms EXCEPT
                                                 ![gameId].pendingNewMatchRequest = request],
                                   out |-> <<ToSocket(players[oi].id, "newMatchRequested",
                                                      players[ri + 1].username)>>],
                                  gameId))
            ELSE Refuse(ErrNoOpponent)

OnRequestNewMatch(s) == RequestNewMatchIn(gameRooms, s)

RequestNewMatch(s) == Handle(s, OnRequestNewMatch(s))

\* the guard without its test that the sender is not the requester
NoAnswerableRequestButOwn(rooms, gameId, s) ==
    \/ gameId \notin DOMAIN rooms
    \/ rooms[gameId].pendingNewMatchRequest = NoRequest

\* the guard shared by acceptNewMatch and declineNewMatch
NoAnswerableRequest(rooms, gameId, s) ==
    \/ gameId \notin DOMAIN rooms
    \/ rooms[gameId].pendingNewMatchRequest = NoRequest
    \/ rooms[gameId].pendingNewMatchRequest.requesterId = s

\* acceptNewMatch of connection s on the registry rooms
AcceptNewMatchIn(rooms, s) ==
    LET gameId == playerCurrentGameId[s] IN
    IF NoAnswerableRequest(rooms, gameId, s)
    THEN [rooms |-> rooms, gameId |-> gameId, out |-> GameError(s, ErrNoAccept)]
    ELSE LET st1 == ResetGameRound([rooms |-> rooms, out |-> <<>>], gameId)
             st2 == [st1 EXCEPT !.out = Append(@, ToRoom(gameId, "newMatchAccepted", Null))]
         IN Commit(s, EmitGameState(st2, gameId))

OnAcceptNewMatch(s) == AcceptNewMatchIn(gameRooms, s)

AcceptNewMatch(s) == Handle(s, OnAcceptNewMatch(s))

\* a decline that resets the round as an accept does
OnDeclineNewMatchResets(s) == OnAcceptNewMatch(s)

\* mutant: a decline that notifies and leaves the request pending
DeclineNewMatchInKeepsRequest(rooms, s) ==
    LET gameId == playerCurrentGameId[s] IN
    IF NoAnswerableRequest(rooms, gameId, s)
    THEN [rooms |-> rooms, gameId |-> gameId, out |-> GameError(s, ErrNoDecline)]
    ELSE Commit(s, EmitGameState(
                       [rooms |-> rooms,
                        out |-> <<ToSocket(s, "newMatchDeclined",
                                           UsernameOf(rooms[gameId].players, s, "undefined"))>>],
                       gameId))

\* declineNewMatch of connection s on the registry rooms
DeclineNewMatchIn(rooms, s) ==
    LET gameId == playerCurrentGameId[s] IN
    IF NoAnswerableRequest(rooms, gameId, s)
    THEN [rooms |-> rooms, gameId |-> gameId, out |-> GameError(s, ErrNoDecline)]
    ELSE LET room == rooms[gameId]
             requesterId == room.pendingNewMatchRequest.requesterId
             declinerUsername == UsernameOf(room.players, s, "undefined")
             toRequester == IF FindIndex(room.players, requesterId) # -1
                            THEN <<ToSocket(requesterId, "newMatchDeclined", declinerUsername)>>
                            ELSE <<>>
         IN Commit(s, EmitGameState(
                          [rooms |-> [rooms EXCEPT
                                         ![gameId].pendingNewMatchRequest = NoRequest],
                           out |-> toRequester \o
                                   <<ToSocket(s, "newMatchDeclined", declinerUsername)>>],
                          gameId))

OnDeclineNewMatch(s) == DeclineNewMatchIn(gameRooms, s)

DeclineNewMatch(s) == Handle(s, OnDeclineNewMatch(s))

Messages == {"hi"}

OnSendMessage(s, message) ==
    LET gameId == playerCurrentGameId[s] IN
    IF gameId \notin DOMAIN gameRooms
    THEN Reject(s, ErrNoRoomMessage)
    ELSE Commit(s, [rooms |-> gameRooms,
                    out |-> <<ToRoom(gameId, "message",
                                     [senderId |-> UsernameOf(gameRooms[gameId].players, s,
                                                              "Player-"),
                                      message |-> message])>>])

SendMessage(s, message) == Handle(s, OnSendMessage(s, message))

OnResetGame(s) ==
    LET gameId == playerCurrentGameId[s] IN
    IF gameId \notin DOMAIN gameRooms
    THEN Reject(s, ErrNoRoomReset)
    ELSE IF gameRooms[gameId].gameStarted
    THEN Reject(s, ErrInProgressReset)
    ELSE IF gameRooms[gameId].pendingNewMatchRequest # NoRequest
    THEN Reject(s, ErrPendingReset)
    ELSE Commit(s, ResetGameRound(Start, gameId))

ResetGame(s) == Handle(s, OnResetGame(s))

\* leaveGame and disconnect each spell out the same steps: remove the player,
\* recompute the turn, reset a short-handed round, emit.  gameRoom is the
\* handler's reference to the room object, which outlives a gameRooms.delete.
TurnHolderLeft(room, s) == room.currentTurnPlayerId = s /\ room.gameStarted

RecomputedTurnIndex(room) ==
    IF FindIndex(room.players, room.currentTurnPlayerId) = -1
    THEN 0
    ELSE FindIndex(room.players, room.currentTurnPlayerId)

\* mutant: the short-handed test off by one
ShortHandedOffByOne(room) == room.gameStarted /\ Len(room.players) < 1

ShortHanded(room) == room.gameStarted /\ Len(room.players) < 2

OnLeaveGame(s) ==
    LET gameId == playerCurrentGameId[s] IN
    IF gameId # Null /\ gameId \in DOMAIN gameRooms
    THEN LET leavingUsername == UsernameOf(gameRooms[gameId].players, s, "Unknown Player")
             st1 == [rooms |-> [gameRooms EXCEPT ![gameId].players = FilterOut(@, s)],
                     out |-> <<ToRoom(gameId, "userLeft", leavingUsername)>>]
             room1 == st1.rooms[gameId]
             st2 == IF TurnHolderLeft(room1, s)
                    THEN IF Len(room1.players) > 0
                         THEN AdvanceTurn(
                                  [st1 EXCEPT !.rooms[gameId].turnIndex =
                                                  RecomputedTurnIndex(room1)],
                                  gameId)
                         ELSE DeleteRoom(st1, gameId)
                    ELSE st1
             gameRoom == IF gameId \in DOMAIN st2.rooms THEN st2.rooms[gameId] ELSE room1
             st3 == IF ShortHanded(gameRoom) THEN ResetGameRound(st2, gameId) ELSE st2
         IN Result(IF gameId \in DOMAIN st3.rooms THEN EmitGameState(st3, gameId) ELSE st3,
                   Null)
    ELSE Commit(s, Start)

LeaveGame(s) == Handle(s, OnLeaveGame(s))

\* mutant: a disconnect that removes the player and does nothing else
OnDisconnectOnlyRemoves(s) ==
    LET gameId == playerCurrentGameId[s] IN
    IF gameId # Null /\ gameId \in DOMAIN gameRooms
    THEN Commit(s, EmitGameState(
                       [rooms |-> [gameRooms EXCEPT ![gameId].players = FilterOut(@, s)],
                        out |-> <<>>], gameId))
    ELSE Commit(s, Start)

\* the closure variable playerCurrentGameId is never cleared on disconnect
OnDisconnect(s) ==
    LET gameId == playerCurrentGameId[s] IN
    IF gameId # Null /\ gameId \in DOMAIN gameRooms
    THEN LET disconnectedUsername ==
                 UsernameOf(gameRooms[gameId].players, s, "Unknown Player")
             st1 == [rooms |-> [gameRooms EXCEPT ![gameId].players = FilterOut(@, s)],
                     out |-> <<ToRoom(gameId, "userLeft", disconnectedUsername)>>]
             room1 == st1.rooms[gameId]
             st2 == IF TurnHolderLeft(room1, s)
                    THEN IF Len(room1.players) > 0
                         THEN AdvanceTurn(
                                  [st1 EXCEPT !.rooms[gameId].turnIndex =
                                                  RecomputedTurnIndex(room1)],
                                  gameId)
                         ELSE DeleteRoom(st1, gameId)
                    ELSE st1
             gameRoom == IF gameId \in DOMAIN st2.rooms THEN st2.rooms[gameId] ELSE room1
             st3 == IF ShortHanded(gameRoom) THEN ResetGameRound(st2, gameId) ELSE st2
         IN Commit(s, IF gameId \in DOMAIN st3.rooms
                      THEN EmitGameState(st3, gameId) ELSE st3)
    ELSE Commit(s, Start)

\* the connection is gone afterwards
Disconnect(s) ==
    /\ events < MaxEvents
    /\ gameRooms' = OnDisconnect(s).rooms
    /\ connected' = connected \ {s}
    /\ events' = events + 1
    /\ UNCHANGED <<playerCurrentGameId, nextSocket>>

Next ==
    \/ Connect
    \/ \E s \in connected : CreateGame(s, Username(s))
    \/ \E s \in connected, g \in GameIds : JoinGame(s, g, Username(s))
    \/ \E s \in connected : StartGame(s)
    \/ \E s \in connected, n \in Numbers : MarkNumber(s, n)
    \/ \E s \in connected : DeclareWin(s)
    \/ \E s \in connected : RequestNewMatch(s)
    \/ \E s \in connected : AcceptNewMatch(s)
    \/ \E s \in connected : DeclineNewMatch(s)
    \/ \E s \in connected, m \in Messages : SendMessage(s, m)
    \/ \E s \in connected : ResetGame(s)
    \/ \E s \in connected : LeaveGame(s)
    \/ \E s \in connected : Disconnect(s)

Spec == Init /\ [][Next]_vars
\* ---- what a handler's result looks like ----
IsOnlyError(res, s, text) ==
    /\ Len(res.out) = 1
    /\ res.out[1].ev = "gameError"
    /\ res.out[1].sock = s
    /\ res.out[1].data = text

ChangesNothing(res, s) ==
    res.rooms = gameRooms /\ res.gameId = playerCurrentGameId[s]

Broadcasts(res, gameId, ev) ==
    \E i \in DOMAIN res.out : res.out[i].ev = ev /\ res.out[i].room = gameId

\* the live connections bound to room gameId
BoundTo(gameId) == {s \in connected : playerCurrentGameId[s] = gameId}

AtMostTwoPlayers == \A g \in DOMAIN gameRooms : Len(gameRooms[g].players) <= 2

\* C1 as stated: no room ever has more than 2 participants, and a joinGame on a
\* room that has 2 participants is answered with the sender-only 'full' error and
\* changes neither the registry nor the sender's binding, whoever sends it.
C1_FullErrorAlways ==
    /\ AtMostTwoPlayers
    /\ \A s \in connected, g \in DOMAIN gameRooms :
          Len(gameRooms[g].players) >= 2 =>
              /\ IsOnlyError(OnJoinGame(s, g, Username(s)), s, ErrFull)
              /\ ChangesNothing(OnJoinGame(s, g, Username(s)), s)

\* C1 amended: no room ever has more than 2 participants, and a joinGame on a
\* room that has 2 participants changes nothing and is answered with one
\* sender-only error: 'full' when the sender is bound to no game, 'already in a
\* game' when it is bound to one.
C1_JoinOnFullRoomRejected ==
    /\ AtMostTwoPlayers
    /\ \A s \in connected, g \in DOMAIN gameRooms :
          Len(gameRooms[g].players) >= 2 =>
              /\ IsOnlyError(OnJoinGame(s, g, Username(s)), s,
                             IF playerCurrentGameId[s] = Null
                             THEN ErrFull ELSE ErrAlreadyInGame)
              /\ ChangesNothing(OnJoinGame(s, g, Username(s)), s)

\* a third, unbound connection asks to join a room of two and gets 'full'
C1_Witness ==
    \E s \in connected, g \in DOMAIN gameRooms :
        /\ playerCurrentGameId[s] = Null
        /\ Len(gameRooms[g].players) = 2
        /\ IsOnlyError(OnJoinGame(s, g, Username(s)), s, ErrFull)

\* C2: when a room has a recorded winner and no draw yet, a declareWin of a
\* participant other than the winner leaves the room with draw = true,
\* started = false, no turn holder and the original winnerId, and broadcasts
\* gameDraw to the room.
C2_CounterWinIsDraw ==
    \A g \in DOMAIN gameRooms : \A s \in BoundTo(g) :
        (gameRooms[g].winnerId # Null /\ gameRooms[g].winnerId # s /\ ~gameRooms[g].draw) =>
            LET res == OnDeclareWin(s) IN
            /\ res.rooms[g].draw = TRUE
            /\ res.rooms[g].gameStarted = FALSE
            /\ res.rooms[g].currentTurnPlayerId = Null
            /\ res.rooms[g].winnerId = gameRooms[g].winnerId
            /\ Broadcasts(res, g, "gameDraw")

\* A has won a round in which a number was marked, B is still there and claims
C2_Witness ==
    \E g \in DOMAIN gameRooms : \E s \in BoundTo(g) :
        /\ gameRooms[g].winnerId \in PlayerIds(gameRooms[g]) \ {s}
        /\ ~gameRooms[g].draw
        /\ gameRooms[g].markedNumbers # <<>>
        /\ OnDeclareWin(s).rooms[g].draw

\* C3: in a concluded round, a declareWin of the recorded winner, or of anyone
\* once the outcome is a draw, is answered with a sender-only error only and
\* leaves the state unchanged.
C3_DuplicateClaimRejected ==
    \A g \in DOMAIN gameRooms : \A s \in BoundTo(g) :
        (~gameRooms[g].gameStarted /\ (gameRooms[g].winnerId = s \/ gameRooms[g].draw)) =>
            /\ IsOnlyError(OnDeclareWin(s), s, ErrCannotDeclare)
            /\ ChangesNothing(OnDeclareWin(s), s)

\* C4: in a started round with both participants connected, whichever of the
\* two declareWin events is processed first makes its sender the winner (no
\* draw), and the other one, processed next, turns the outcome into a draw that
\* keeps the first winner; both are announced to the room.
C4_ProcessingOrderDecides ==
    \A g \in DOMAIN gameRooms : \A a \in BoundTo(g), b \in BoundTo(g) :
        (gameRooms[g].gameStarted /\ a # b) =>
            LET first == DeclareWinIn(gameRooms, a)
                second == DeclareWinIn(first.rooms, b)
            IN /\ first.rooms[g].winnerId = a
               /\ ~first.rooms[g].draw
               /\ Broadcasts(first, g, "playerDeclaredWin")
               /\ second.rooms[g].winnerId = a
               /\ second.rooms[g].draw
               /\ Broadcasts(second, g, "gameDraw")

\* a started round in which the player in the second seat claims first
C4_Witness ==
    \E g \in DOMAIN gameRooms : \E a \in BoundTo(g), b \in BoundTo(g) :
        /\ gameRooms[g].gameStarted
        /\ gameRooms[g].players[1].id = b
        /\ gameRooms[g].players[2].id = a
        /\ DeclareWinIn(DeclareWinIn(gameRooms, a).rooms, b).rooms[g].draw

\* C5: no registered room has zero participants, and after the leaveGame or
\* the disconnect of a room's only participant the room's code is absent from
\* the registry.
C5_LastLeaverRemovesRoom ==
    /\ \A g \in DOMAIN gameRooms : Len(gameRooms[g].players) > 0
    /\ \A g \in DOMAIN gameRooms : \A s \in BoundTo(g) :
          PlayerIds(gameRooms[g]) = {s} =>
              /\ g \notin DOMAIN OnLeaveGame(s).rooms
              /\ g \notin DOMAIN OnDisconnect(s).rooms
\* the room a departure of s from a started two-player room must leave behind
RoomAfterDeparture(room, s) ==
    LET other == room.players[OpponentIndex(room.players, s)] IN
    [gameId |-> room.gameId,
     players |-> <<[id |-> other.id, username |-> other.username, playerNumber |-> 1]>>,
     gameStarted |-> FALSE,
     currentTurnPlayerId |-> Null,
     markedNumbers |-> <<>>,
     winnerId |-> Null,
     draw |-> FALSE,
     pendingNewMatchRequest |-> NoRequest]

\* C6: when a participant of a started two-player round leaves or disconnects,
\* whether or not it holds the turn, the room stays registered with exactly the
\* other participant in seat 1, started = false, markedNumbers = [], no turn
\* holder, no winner, no draw and no pending rematch request.
C6_DepartureResetsRound ==
    \A g \in DOMAIN gameRooms : \A s \in BoundTo(g) :
        (gameRooms[g].gameStarted /\ Len(gameRooms[g].players) = 2) =>
            /\ g \in DOMAIN OnLeaveGame(s).rooms
            /\ Snapshot(OnLeaveGame(s).rooms[g]) = RoomAfterDeparture(gameRooms[g], s)
            /\ g \in DOMAIN OnDisconnect(s).rooms
            /\ Snapshot(OnDisconnect(s).rooms[g]) = RoomAfterDeparture(gameRooms[g], s)

\* a started round with a marked number whose turn holder, in the second seat,
\* and whose other participant can both depart
C6_Witness ==
    \E g \in DOMAIN gameRooms :
        /\ gameRooms[g].gameStarted
        /\ gameRooms[g].markedNumbers # <<>>
        /\ gameRooms[g].turnIndex = 1
        /\ Cardinality(BoundTo(g)) = 2
        /\ \A s \in BoundTo(g) :
              /\ Len(OnLeaveGame(s).rooms[g].players) = 1
              /\ Len(OnDisconnect(s).rooms[g].players) = 1

TurnValidIn(rooms) ==
    \A g \in DOMAIN rooms :
        LET room == rooms[g] IN
        /\ room.gameStarted =>
              /\ room.turnIndex \in 0..(Len(room.players) - 1)
              /\ room.players[room.turnIndex + 1].id = room.currentTurnPlayerId
              /\ Cardinality({i \in DOMAIN room.players :
                                 room.players[i].id = room.currentTurnPlayerId}) = 1
        /\ room.currentTurnPlayerId # Null => room.currentTurnPlayerId \in PlayerIds(room)

\* C7: in every state a handler ends in, and in the state every leaveGame or
\* disconnect would end in, a started room has turnIndex within its
\* participant list, the participant at turnIndex is currentTurnPlayerId and is
\* the only turn holder; a non-null currentTurnPlayerId is a current participant.
C7_TurnPointerValid ==
    /\ TurnValidIn(gameRooms)
    /\ \A s \in connected :
          /\ TurnValidIn(OnLeaveGame(s).rooms)
          /\ TurnValidIn(OnDisconnect(s).rooms)

\* a started round whose turn has passed to the second seat after a mark
C7_Witness ==
    \E g \in DOMAIN gameRooms :
        /\ gameRooms[g].gameStarted
        /\ gameRooms[g].markedNumbers # <<>>
        /\ gameRooms[g].turnIndex = 1
        /\ gameRooms[g].currentTurnPlayerId = gameRooms[g].players[2].id
        /\ gameRooms[g].currentTurnPlayerId \in BoundTo(g)

\* markNumber(n) of s is accepted in the current state
MarkAccepted(s, number) ==
    LET g == playerCurrentGameId[s] IN
    /\ g \in DOMAIN gameRooms
    /\ gameRooms[g].gameStarted
    /\ gameRooms[g].currentTurnPlayerId = s
    /\ \A i \in DOMAIN gameRooms[g].markedNumbers : gameRooms[g].markedNumbers[i] # number

\* C8: an accepted markNumber of s passes the turn to the other participant of
\* the room, and while a round stays started the turn holder changes in no step
\* other than an accepted markNumber; so the senders of consecutive accepted
\* marks of a round alternate.
C8_TurnsAlternate ==
    [][/\ \A s \in connected, n \in Numbers :
             (MarkAccepted(s, n) /\ MarkNumber(s, n)) =>
                 /\ gameRooms'[playerCurrentGameId[s]].gameStarted
                 /\ gameRooms'[playerCurrentGameId[s]].currentTurnPlayerId \in
                        PlayerIds(gameRooms[playerCurrentGameId[s]]) \ {s}
       /\ \A g \in DOMAIN gameRooms :
             (/\ g \in DOMAIN gameRooms'
              /\ gameRooms[g].gameStarted
              /\ gameRooms'[g].gameStarted
              /\ gameRooms'[g].currentTurnPlayerId # gameRooms[g].currentTurnPlayerId) =>
                 \E n \in Numbers :
                     /\ MarkAccepted(gameRooms[g].currentTurnPlayerId, n)
                     /\ gameRooms'[g].markedNumbers = Append(gameRooms[g].markedNumbers, n)
      ]_vars

\* two marks were accepted in one round and the turn is back at the first marker
C8_Witness ==
    \E g \in DOMAIN gameRooms :
        /\ gameRooms[g].gameStarted
        /\ Len(gameRooms[g].markedNumbers) = 2
        /\ gameRooms[g].currentTurnPlayerId \in BoundTo(g)

NoDuplicates(seq) == \A i \in DOMAIN seq, j \in DOMAIN seq : i # j => seq[i] # seq[j]

\* C9: no room's markedNumbers holds a value twice, and a markNumber(n) of the
\* turn holder for an n already marked is answered with the sender-only
\* 'already called' error and changes nothing.
C9_NoDuplicateMarks ==
    /\ \A g \in DOMAIN gameRooms : NoDuplicates(gameRooms[g].markedNumbers)
    /\ \A g \in DOMAIN gameRooms : \A s \in BoundTo(g), n \in Numbers :
          (/\ gameRooms[g].gameStarted
           /\ gameRooms[g].currentTurnPlayerId = s
           /\ \E i \in DOMAIN gameRooms[g].markedNumbers : gameRooms[g].markedNumbers[i] = n) =>
              /\ IsOnlyError(OnMarkNumber(s, n), s, ErrAlreadyCalled)
              /\ ChangesNothing(OnMarkNumber(s, n), s)

\* the turn holder repeats the first of two marked numbers and is refused
C9_Witness ==
    \E g \in DOMAIN gameRooms : \E s \in BoundTo(g) :
        /\ gameRooms[g].gameStarted
        /\ gameRooms[g].currentTurnPlayerId = s
        /\ Len(gameRooms[g].markedNumbers) = 2
        /\ IsOnlyError(OnMarkNumber(s, gameRooms[g].markedNumbers[1]), s, ErrAlreadyCalled)

IsPrefix(a, b) == Len(a) <= Len(b) /\ \A i \in DOMAIN a : a[i] = b[i]

\* C10: in a step that leaves a room started, its old markedNumbers is a prefix
\* of the new one; and a step in which markedNumbers stops extending the old
\* sequence empties it, is a handler that calls resetGameRound (acceptNewMatch,
\* resetGame, leaveGame, disconnect) and leaves the round fields reset.
C10_MarkedOnlyGrows ==
    [][\A g \in DOMAIN gameRooms :
           g \in DOMAIN gameRooms' =>
               /\ (gameRooms[g].gameStarted /\ gameRooms'[g].gameStarted) =>
                      IsPrefix(gameRooms[g].markedNumbers, gameRooms'[g].markedNumbers)
               /\ ~IsPrefix(gameRooms[g].markedNumbers, gameRooms'[g].markedNumbers) =>
                      /\ gameRooms'[g].markedNumbers = <<>>
                      /\ gameRooms'[g] = ClearedRound(gameRooms'[g])
                      /\ \E s \in BoundTo(g) :
                             \/ AcceptNewMatch(s)
                             \/ ResetGame(s)
                             \/ LeaveGame(s)
                             \/ Disconnect(s)
      ]_vars

\* a started round with a marked number that a departure would empty
C10_Witness ==
    \E g \in DOMAIN gameRooms : \E s \in BoundTo(g) :
        /\ gameRooms[g].gameStarted
        /\ Len(gameRooms[g].markedNumbers) >= 1
        /\ OnLeaveGame(s).rooms[g].markedNumbers = <<>>

\* acceptNewMatch of s is accepted in the current state: s is bound to a room
\* with a pending request of somebody else
AcceptAnswers(s) ==
    LET g == playerCurrentGameId[s] IN
    /\ g \in DOMAIN gameRooms
    /\ gameRooms[g].pendingNewMatchRequest # NoRequest
    /\ gameRooms[g].pendingNewMatchRequest.requesterId # s

\* C11: after an accepted acceptNewMatch the room has markedNumbers = [],
\* winnerId = null, draw = false, started = false, no turn holder, no pending
\* rematch request, the same participants (id and username) in the same order
\* and seat numbers 1..N in that order; gameReset and newMatchAccepted are
\* broadcast to the room.
C11_AcceptResetsRound ==
    \A s \in connected :
        AcceptAnswers(s) =>
            LET g == playerCurrentGameId[s]
                before == gameRooms[g]
                res == OnAcceptNewMatch(s)
                after == res.rooms[g]
            IN /\ after.markedNumbers = <<>>
               /\ after.winnerId = Null
               /\ after.draw = FALSE
               /\ after.gameStarted = FALSE
               /\ after.currentTurnPlayerId = Null
               /\ after.pendingNewMatchRequest = NoRequest
               /\ Len(after.players) = Len(before.players)
               /\ \A i \in DOMAIN before.players :
                     /\ after.players[i].id = before.players[i].id
                     /\ after.players[i].username = before.players[i].username
                     /\ after.players[i].playerNumber = i
               /\ Broadcasts(res, g, "gameReset")
               /\ Broadcasts(res, g, "newMatchAccepted")
               /\ res.gameId = g

\* a concluded round with a winner and a marked number whose rematch request
\* the other participant can accept
C11_Witness ==
    \E s \in connected :
        /\ AcceptAnswers(s)
        /\ gameRooms[playerCurrentGameId[s]].winnerId # Null
        /\ gameRooms[playerCurrentGameId[s]].markedNumbers # <<>>
        /\ OnAcceptNewMatch(s).rooms[playerCurrentGameId[s]].markedNumbers = <<>>

\* C12: a createGame that is not rejected registers its room, holding only the
\* sender, under a code the registry did not hold, and leaves every room that
\* was registered as it was; every registered room is registered under its own
\* code, so the codes of the registered rooms are pairwise distinct.
C12_FreshRoomCode ==
    [][/\ \A s \in connected :
             (playerCurrentGameId[s] = Null /\ CreateGame(s, Username(s))) =>
                 \E g \in GameIds \ DOMAIN gameRooms :
                     /\ DOMAIN gameRooms' = DOMAIN gameRooms \cup {g}
                     /\ \A h \in DOMAIN gameRooms : gameRooms'[h] = gameRooms[h]
                     /\ PlayerIds(gameRooms'[g]) = {s}
                     /\ playerCurrentGameId'[s] = g
       /\ \A g \in DOMAIN gameRooms' : gameRooms'[g].gameId = g
      ]_vars

\* a second room was created while the first one has both its participants
C12_Witness ==
    /\ Cardinality(DOMAIN gameRooms) = 2
    /\ \E g \in DOMAIN gameRooms : Len(gameRooms[g].players) = 2
    /\ \E g \in DOMAIN gameRooms : \E s \in BoundTo(g) : PlayerIds(gameRooms[g]) = {s}

\* the handler answered with a gameError
AnswersError(res) == \E i \in DOMAIN res.out : res.out[i].ev = "gameError"

\* the gameError is the handler's only emission, it goes to the sender alone,
\* and the registry and the sender's binding are as before the event
RejectedCleanly(res, s) ==
    /\ Len(res.out) = 1
    /\ res.out[1].sock = s
    /\ res.out[1].room = Null
    /\ ChangesNothing(res, s)

\* C13: whenever the handler of createGame, joinGame, startGame, markNumber,
\* declareWin, requestNewMatch, acceptNewMatch, declineNewMatch or resetGame
\* answers with a gameError, that error is its only emission and goes to the
\* sender alone, and the registry, every room and the sender's binding (the
\* only binding a handler can write) are exactly as before the event.
C13_RejectionChangesNothing ==
    \A s \in connected :
        /\ \A g \in GameIds :
              /\ AnswersError(OnCreateGame(s, Username(s), g)) =>
                     RejectedCleanly(OnCreateGame(s, Username(s), g), s)
              /\ AnswersError(OnJoinGame(s, g, Username(s))) =>
                     RejectedCleanly(OnJoinGame(s, g, Username(s)), s)
        /\ \A ti \in 0..1 :
              AnswersError(OnStartGame(s, ti)) => RejectedCleanly(OnStartGame(s, ti), s)
        /\ \A n \in Numbers :
              AnswersError(OnMarkNumber(s, n)) => RejectedCleanly(OnMarkNumber(s, n), s)
        /\ AnswersError(OnDeclareWin(s)) => RejectedCleanly(OnDeclareWin(s), s)
        /\ AnswersError(OnRequestNewMatch(s)) => RejectedCleanly(OnRequestNewMatch(s), s)
        /\ AnswersError(OnAcceptNewMatch(s)) => RejectedCleanly(OnAcceptNewMatch(s), s)
        /\ AnswersError(OnDeclineNewMatch(s)) => RejectedCleanly(OnDeclineNewMatch(s), s)
        /\ AnswersError(OnResetGame(s)) => RejectedCleanly(OnResetGame(s), s)

\* a started round with a marked number in which the participant without the
\* turn has every one of its events but declareWin rejected
C13_Witness ==
    \E g \in DOMAIN gameRooms : \E s \in BoundTo(g) :
        /\ gameRooms[g].gameStarted
        /\ gameRooms[g].markedNumbers # <<>>
        /\ s \in PlayerIds(gameRooms[g])
        /\ AnswersError(OnCreateGame(s, Username(s), g))
        /\ AnswersError(OnJoinGame(s, g, Username(s)))
        /\ AnswersError(OnStartGame(s, 0))
        /\ AnswersError(OnMarkNumber(s, 0))
        /\ AnswersError(OnRequestNewMatch(s))
        /\ AnswersError(OnAcceptNewMatch(s))
        /\ AnswersError(OnDeclineNewMatch(s))
        /\ AnswersError(OnResetGame(s))
        /\ ~AnswersError(OnDeclareWin(s))

\* C14 as stated: no room has draw = true while its winnerId is non-null.
C14_WinnerOrDrawNotBoth ==
    \A g \in DOMAIN gameRooms : ~(gameRooms[g].draw /\ gameRooms[g].winnerId # Null)

\* C14: a room with draw = true always has a non-null winnerId, the first
\* claimant; winnerId alone is a win, winnerId with draw is a draw; either
\* outcome is recorded only in a round that is not started, and a room that
\* acceptNewMatch or resetGame has reset, or startGame has started, has neither.
C14_DrawKeepsWinner ==
    /\ \A g \in DOMAIN gameRooms :
          /\ gameRooms[g].draw => gameRooms[g].winnerId # Null
          /\ (gameRooms[g].draw \/ gameRooms[g].winnerId # Null) => ~gameRooms[g].gameStarted
    /\ \A s \in connected :
          LET g == playerCurrentGameId[s] IN
          g \in DOMAIN gameRooms =>
              /\ \A ti \in FirstTurnIndexes(gameRooms[g]) :
                    ~AnswersError(OnStartGame(s, ti)) =>
                        /\ OnStartGame(s, ti).rooms[g].winnerId = Null
                        /\ ~OnStartGame(s, ti).rooms[g].draw
              /\ ~AnswersError(OnAcceptNewMatch(s)) =>
                    /\ OnAcceptNewMatch(s).rooms[g].winnerId = Null
                    /\ ~OnAcceptNewMatch(s).rooms[g].draw
              /\ ~AnswersError(OnResetGame(s)) =>
                    /\ OnResetGame(s).rooms[g].winnerId = Null
                    /\ ~OnResetGame(s).rooms[g].draw

\* a draw that keeps its first claimant, in a room whose participants can
\* start the next round
C14_Witness ==
    \E g \in DOMAIN gameRooms : \E s \in BoundTo(g) :
        /\ gameRooms[g].draw
        /\ gameRooms[g].winnerId \in PlayerIds(gameRooms[g])
        /\ ~AnswersError(OnStartGame(s, 0))
        /\ ~AnswersError(OnResetGame(s))

\* C15: a markNumber of a connection whose room is not started, or has an
\* outcome (a winner or a draw), or whose turn it is not, is answered with one
\* sender-only error and changes nothing (markedNumbers, turnIndex and
\* currentTurnPlayerId included); a room with an outcome is not started, so
\* after a win no markNumber is accepted before the next startGame.
C15_OnlyTurnHolderMarks ==
    /\ \A g \in DOMAIN gameRooms :
          (gameRooms[g].winnerId # Null \/ gameRooms[g].draw) => ~gameRooms[g].gameStarted
    /\ \A g \in DOMAIN gameRooms : \A s \in BoundTo(g), n \in Numbers :
          (\/ ~gameRooms[g].gameStarted
           \/ gameRooms[g].winnerId # Null
           \/ gameRooms[g].draw
           \/ gameRooms[g].currentTurnPlayerId # s) =>
              LET res == OnMarkNumber(s, n) IN
              /\ IsOnlyError(res, s, IF gameRooms[g].gameStarted
                                     THEN ErrNotYourTurn ELSE ErrNotActive)
              /\ ChangesNothing(res, s)
              /\ res.rooms[g].markedNumbers = gameRooms[g].markedNumbers
              /\ res.rooms[g].turnIndex = gameRooms[g].turnIndex
              /\ res.rooms[g].currentTurnPlayerId = gameRooms[g].currentTurnPlayerId

\* after a mark and a win, neither participant can mark
C15_Witness ==
    \E g \in DOMAIN gameRooms :
        /\ gameRooms[g].winnerId # Null
        /\ gameRooms[g].markedNumbers # <<>>
        /\ Cardinality(BoundTo(g)) = 2
        /\ \A s \in BoundTo(g), n \in Numbers :
              IsOnlyError(OnMarkNumber(s, n), s, ErrNotActive)

\* C16: a markNumber(n) with n outside 1..25 is answered with one sender-only
\* error and changes nothing, and every element of every room's markedNumbers
\* is in 1..25.
C16_OutOfRangeRejected ==
    /\ \A g \in DOMAIN gameRooms : \A i \in DOMAIN gameRooms[g].markedNumbers :
          gameRooms[g].markedNumbers[i] \in 1..25
    /\ \A s \in connected : \A n \in Numbers \ (1..25) :
          /\ AnswersError(OnMarkNumber(s, n))
          /\ RejectedCleanly(OnMarkNumber(s, n), s)

\* C17: right after every accepted startGame the room has started = true,
\* markedNumbers = [], winnerId = null, draw = false and a turn holder that is
\* one of its two participants, whatever happened in the room before.
C17_StartBeginsClean ==
    \A g \in DOMAIN gameRooms : \A s \in BoundTo(g) :
        \A ti \in FirstTurnIndexes(gameRooms[g]) :
            ~AnswersError(OnStartGame(s, ti)) =>
                LET after == OnStartGame(s, ti).rooms[g] IN
                /\ after.gameStarted
                /\ after.markedNumbers = <<>>
                /\ after.winnerId = Null
                /\ ~after.draw
                /\ Len(after.players) = 2
                /\ after.currentTurnPlayerId \in PlayerIds(after)

\* C18: while a room's winnerId is X, a declareWin from any connection leaves
\* winnerId = X (it is refused or turns the outcome into a draw); the only
\* steps that change a non-null winnerId set it to null together with
\* draw = false, and they are an accepted startGame, resetGame or
\* acceptNewMatch of a connection bound to the room.
C18_WinnerNotOverwritten ==
    [][\A g \in DOMAIN gameRooms :
           gameRooms[g].winnerId # Null =>
               /\ \A s \in connected :
                     /\ g \in DOMAIN DeclareWinIn(gameRooms, s).rooms
                     /\ DeclareWinIn(gameRooms, s).rooms[g].winnerId = gameRooms[g].winnerId
               /\ g \in DOMAIN gameRooms'
               /\ gameRooms'[g].winnerId # gameRooms[g].winnerId =>
                     /\ gameRooms'[g].winnerId = Null
                     /\ ~gameRooms'[g].draw
                     /\ \E s \in BoundTo(g) :
                            \/ StartGame(s)
                            \/ ResetGame(s)
                            \/ AcceptNewMatch(s)
      ]_vars

\* a recorded winner whose opponent's claim has been processed as well
C18_Witness ==
    \E g \in DOMAIN gameRooms :
        /\ gameRooms[g].winnerId \in BoundTo(g)
        /\ gameRooms[g].draw
        /\ \E s \in BoundTo(g) : s # gameRooms[g].winnerId

\* C19: in a room that is not started, has no pending request and whose two
\* participants a and b are connected, when the requestNewMatch of a and then
\* that of b are processed back to back (for either choice of a), the first
\* becomes the pending request and is announced to b, and the second is
\* answered with the sender-only 'already pending' error and changes nothing:
\* the pending request still names a.
C19_OneRequestOutstanding ==
    \A g \in DOMAIN gameRooms : \A a \in BoundTo(g), b \in BoundTo(g) :
        (/\ a # b
         /\ PlayerIds(gameRooms[g]) = {a, b}
         /\ ~gameRooms[g].gameStarted
         /\ gameRooms[g].pendingNewMatchRequest = NoRequest) =>
            LET first == RequestNewMatchIn(gameRooms, a)
                second == RequestNewMatchIn(first.rooms, b)
            IN /\ first.rooms[g].pendingNewMatchRequest =
                      [requesterId |-> a, requesterUsername |-> Username(a)]
               /\ first.rooms = [gameRooms EXCEPT ![g].pendingNewMatchRequest =
                                    [requesterId |-> a, requesterUsername |-> Username(a)]]
               /\ \E i \in DOMAIN first.out :
                      first.out[i].ev = "newMatchRequested" /\ first.out[i].sock = b
               /\ IsOnlyError(second, b, ErrRequestPending)
               /\ second.rooms = first.rooms
               /\ second.gameId = g
               /\ second.rooms[g].pendingNewMatchRequest.requesterId = a

\* a concluded round whose two participants can both still ask for a rematch
C19_Witness ==
    \E g \in DOMAIN gameRooms : \E a \in BoundTo(g), b \in BoundTo(g) :
        /\ a # b
        /\ gameRooms[g].winnerId # Null
        /\ gameRooms[g].players[1].id = b
        /\ gameRooms[g].players[2].id = a
        /\ gameRooms[g].pendingNewMatchRequest = NoRequest
        /\ RequestNewMatchIn(gameRooms, a).rooms[g].pendingNewMatchRequest.requesterId = a
        /\ IsOnlyError(RequestNewMatchIn(RequestNewMatchIn(gameRooms, a).rooms, b),
                       b, ErrRequestPending)
        /\ IsOnlyError(RequestNewMatchIn(RequestNewMatchIn(gameRooms, b).rooms, a),
                       a, ErrRequestPending)

\* C20: an acceptNewMatch or declineNewMatch of a connection that is bound to
\* no registered room, or whose room has no pending request, or that is the
\* requester of the pending request, is answered with one sender-only error
\* and changes nothing: no reset, and the pending request is untouched.
C20_OnlyTheOtherSideAnswers ==
    \A s \in connected :
        LET g == playerCurrentGameId[s] IN
        (\/ g \notin DOMAIN gameRooms
         \/ gameRooms[g].pendingNewMatchRequest = NoRequest
         \/ gameRooms[g].pendingNewMatchRequest.requesterId = s) =>
            /\ IsOnlyError(OnAcceptNewMatch(s), s, ErrNoAccept)
            /\ ChangesNothing(OnAcceptNewMatch(s), s)
            /\ IsOnlyError(OnDeclineNewMatch(s), s, ErrNoDecline)
            /\ ChangesNothing(OnDeclineNewMatch(s), s)

\* after a concluded round with a marked number, the requester of the pending
\* rematch tries to answer it, and so does a connection outside the room
C20_Witness ==
    \E g \in DOMAIN gameRooms : \E s \in BoundTo(g) :
        /\ gameRooms[g].pendingNewMatchRequest.requesterId = s
        /\ gameRooms[g].winnerId # Null
        /\ gameRooms[g].markedNumbers # <<>>
        /\ Cardinality(BoundTo(g)) = 2
        /\ IsOnlyError(OnAcceptNewMatch(s), s, ErrNoAccept)
        /\ IsOnlyError(OnDeclineNewMatch(s), s, ErrNoDecline)
        /\ \E u \in connected \ BoundTo(g) : IsOnlyError(OnAcceptNewMatch(u), u, ErrNoAccept)

\* the number of seats connection id holds in the rooms of the registry
SeatsOf(id) ==
    Cardinality({<<g, i>> \in (DOMAIN gameRooms) \X (1..(MaxSockets + 1)) :
                    i \in DOMAIN gameRooms[g].players /\ gameRooms[g].players[i].id = id})

\* C21: every connection id holds at most one seat in the whole registry (at
\* most one room, at most once in it), and that seat is in the room the
\* connection is bound to; a createGame or joinGame of a connection that is
\* already bound is answered with the sender-only 'already in a game' error,
\* registers no room and adds no participant.
C21_BoundToOneRoom ==
    /\ \A id \in Sockets : SeatsOf(id) <= 1
    /\ \A g \in DOMAIN gameRooms : \A id \in PlayerIds(gameRooms[g]) :
          playerCurrentGameId[id] = g
    /\ \A s \in connected :
          playerCurrentGameId[s] # Null =>
              \A g \in GameIds :
                  /\ IsOnlyError(OnCreateGame(s, Username(s), g), s, ErrAlreadyInGame)
                  /\ ChangesNothing(OnCreateGame(s, Username(s), g), s)
                  /\ IsOnlyError(OnJoinGame(s, g, Username(s)), s, ErrAlreadyInGame)
                  /\ ChangesNothing(OnJoinGame(s, g, Username(s)), s)

\* a participant of one room tries to create a room and to join the other
\* registered room, which has a free seat
C21_Witness ==
    \E g \in DOMAIN gameRooms, h \in DOMAIN gameRooms : \E s \in BoundTo(g) :
        /\ g # h
        /\ s \in PlayerIds(gameRooms[g])
        /\ Len(gameRooms[h].players) = 1
        /\ ~gameRooms[h].gameStarted
        /\ IsOnlyError(OnJoinGame(s, h, Username(s)), s, ErrAlreadyInGame)
        /\ FreeGameIds = {}

\* every room registered under a code other than gameId is still registered
\* under its code after the handler, with all its fields as before
OtherRoomsUntouched(res, gameId) ==
    \A h \in (DOMAIN gameRooms) \ {gameId} :
        h \in DOMAIN res.rooms /\ res.rooms[h] = gameRooms[h]

\* C22: every event handled for a connection bound to a registered room R,
\* accepted or rejected, leaveGame and disconnect included, leaves every other
\* registered room registered under its code with all its fields unchanged.
C22_RoomsIsolated ==
    \A s \in connected :
        LET R == playerCurrentGameId[s] IN
        R \in DOMAIN gameRooms =>
            /\ \A g \in GameIds :
                  /\ OtherRoomsUntouched(OnCreateGame(s, Username(s), g), R)
                  /\ OtherRoomsUntouched(OnJoinGame(s, g, Username(s)), R)
            /\ \A ti \in FirstTurnIndexes(gameRooms[R]) :
                  OtherRoomsUntouched(OnStartGame(s, ti), R)
            /\ \A n \in Numbers : OtherRoomsUntouched(OnMarkNumber(s, n), R)
            /\ OtherRoomsUntouched(OnDeclareWin(s), R)
            /\ OtherRoomsUntouched(OnRequestNewMatch(s), R)
            /\ OtherRoomsUntouched(OnAcceptNewMatch(s), R)
            /\ OtherRoomsUntouched(OnDeclineNewMatch(s), R)
            /\ \A m \in Messages : OtherRoomsUntouched(OnSendMessage(s, m), R)
            /\ OtherRoomsUntouched(OnResetGame(s), R)
            /\ OtherRoomsUntouched(OnLeaveGame(s), R)
            /\ OtherRoomsUntouched(OnDisconnect(s), R)

\* a started round next to a second room with one participant: the departure
\* of a participant of the round resets the round and not the second room
C22_Witness ==
    \E R \in DOMAIN gameRooms, h \in DOMAIN gameRooms : \E s \in BoundTo(R) :
        /\ R # h
        /\ gameRooms[R].gameStarted
        /\ Len(gameRooms[h].players) = 1
        /\ ~OnLeaveGame(s).rooms[R].gameStarted
        /\ OnLeaveGame(s).rooms[h] = gameRooms[h]

\* ---------------------------------------------------------------------------
\* The room-based server of src/unnamed/part_004.  Its registry `games` and the
\* per-connection closure variable `playerGameId` are held in the variables
\* gameRooms and playerCurrentGameId; a game has players (each an id),
\* gameStarted, currentTurnPlayerId, markedNumbers, turnIndex and hostId.
\* ---------------------------------------------------------------------------
P4ErrAlreadyInGame == "You are already in a game. Please leave current game first."
P4ErrNotFound == "Game ID not found."
P4ErrStarted == "Game has already started."
P4ErrNotInGame == "You are not in a game."
P4ErrInProgress == "Game already in progress."
P4ErrNeedTwo == "Need at least 2 players to start the game."
P4ErrNotStarted == "Game not started. Cannot mark numbers."
P4ErrNotYourTurn == "It is not your turn."
P4ErrAlreadyCalled == "This number has already been called."
P4ErrNotActive == "Game is not active. Cannot declare win."
P4ErrNotYourTurnToWin == "It is not your turn to declare win."
P4ErrMustJoin == "You must join a game to send messages."
P4ErrNoActiveGame == "No active game to reset."

P4NewGame(hostId) ==
    [players |-> <<>>,
     gameStarted |-> FALSE,
     currentTurnPlayerId |-> Null,
     markedNumbers |-> <<>>,
     turnIndex |-> 0,
     hostId |-> hostId]

\* the payload of emitGameState
P4Snapshot(game, gameId) ==
    [gameStarted |-> game.gameStarted,
     currentTurnPlayerId |-> game.currentTurnPlayerId,
     markedNumbers |-> game.markedNumbers,
     players |-> [i \in DOMAIN game.players |-> [id |-> game.players[i].id, name |-> "Player"]],
     gameId |-> gameId]

P4EmitGameState(st, gameId) ==
    IF gameId \in DOMAIN st.rooms
    THEN [st EXCEPT !.out = Append(@, ToRoom(gameId, "gameState",
                                             P4Snapshot(st.rooms[gameId], gameId)))]
    ELSE st

P4AdvanceTurn(st, gameId) ==
    IF \/ gameId \notin DOMAIN st.rooms
       \/ ~st.rooms[gameId].gameStarted
       \/ Len(st.rooms[gameId].players) = 0
    THEN st
    ELSE LET game == st.rooms[gameId]
             ti == (game.turnIndex + 1) % Len(game.players)
         IN P4EmitGameState(
                [st EXCEPT !.rooms[gameId].turnIndex = ti,
                           !.rooms[gameId].currentTurnPlayerId = game.players[ti + 1].id],
                gameId)

\* the helper resetGame(gameId)
P4ResetGameRoom(st, gameId) ==
    IF gameId \notin DOMAIN st.rooms THEN st
    ELSE P4EmitGameState(
             [rooms |-> [st.rooms EXCEPT ![gameId].gameStarted = FALSE,
                                         ![gameId].currentTurnPlayerId = Null,
                                         ![gameId].markedNumbers = <<>>,
                                         ![gameId].turnIndex = 0],
              out |-> Append(st.out, ToRoom(gameId, "gameReset", Null))],
             gameId)

P4RemovePlayerFromGame(st, gameId, playerId) ==
    IF gameId \notin DOMAIN st.rooms THEN st
    ELSE LET st1 == [st EXCEPT !.rooms[gameId].players = FilterOut(@, playerId)]
             game1 == st1.rooms[gameId]
         IN IF Len(game1.players) = 0
            THEN DeleteRoom(st1, gameId)
            ELSE LET st2 == IF game1.currentTurnPlayerId = playerId /\ game1.gameStarted
                            THEN P4AdvanceTurn(st1, gameId)
                            ELSE st1
                     game2 == st2.rooms[gameId]
                     st3 == IF game2.gameStarted /\ Len(game2.players) < 2
                            THEN P4ResetGameRoom(st2, gameId)
                            ELSE st2
                 IN P4EmitGameState(st3, gameId)

\* socket.emit('error', text)
P4Error(s, text) ==
    [rooms |-> gameRooms, gameId |-> playerCurrentGameId[s],
     out |-> <<ToSocket(s, "error", text)>>]

\* createGame, gameId being what generateGameId returned
P4OnCreateGame(s, gameId) ==
    IF playerCurrentGameId[s] # Null
    THEN P4Error(s, P4ErrAlreadyInGame)
    ELSE LET game == [P4NewGame(s) EXCEPT !.players = <<[id |-> s]>>,
                                          !.currentTurnPlayerId = s]
             rooms1 == [h \in (DOMAIN gameRooms) \cup {gameId} |->
                           IF h = gameId THEN game ELSE gameRooms[h]]
         IN Result(P4EmitGameState([rooms |-> rooms1,
                                    out |-> <<ToSocket(s, "gameCreated", gameId)>>], gameId),
                   gameId)

P4CreateGame(s) ==
    IF playerCurrentGameId[s] # Null
    THEN Handle(s, P4OnCreateGame(s, Null))
    ELSE \E gameId \in FreeGameIds : Handle(s, P4OnCreateGame(s, gameId))

P4OnJoinGame(s, gameId) ==
    IF playerCurrentGameId[s] # Null
    THEN P4Error(s, P4ErrAlreadyInGame)
    ELSE IF gameId \notin DOMAIN gameRooms
    THEN Reject(s, P4ErrNotFound)
    ELSE IF gameRooms[gameId].gameStarted
    THEN Reject(s, P4ErrStarted)
    ELSE LET players1 == Append(gameRooms[gameId].players, [id |-> s])
             game1 == [gameRooms[gameId] EXCEPT
                          !.players = players1,
                          !.currentTurnPlayerId =
                              IF Len(players1) = 2 /\ @ = Null THEN players1[1].id ELSE @]
         IN Result(P4EmitGameState([rooms |-> [gameRooms EXCEPT ![gameId] = game1],
                                    out |-> <<ToSocket(s, "gameJoined", gameId)>>], gameId),
                   gameId)

P4JoinGame(s, gameId) == Handle(s, P4OnJoinGame(s, gameId))
P4OnStartGame(s) ==
    LET gameId == playerCurrentGameId[s] IN
    IF gameId \notin DOMAIN gameRooms
    THEN P4Error(s, P4ErrNotInGame)
    ELSE IF ~gameRooms[gameId].gameStarted /\ Len(gameRooms[gameId].players) >= 2
    THEN Commit(s, P4EmitGameState(
                       [rooms |-> [gameRooms EXCEPT
                                      ![gameId].gameStarted = TRUE,
                                      ![gameId].turnIndex = 0,
                                      ![gameId].currentTurnPlayerId =
                                          gameRooms[gameId].players[1].id,
                                      ![gameId].markedNumbers = <<>>],
                        out |-> <<>>], gameId))
    ELSE IF gameRooms[gameId].gameStarted
    THEN P4Error(s, P4ErrInProgress)
    ELSE P4Error(s, P4ErrNeedTwo)

P4StartGame(s) == Handle(s, P4OnStartGame(s))

P4OnMarkNumber(s, num) ==
    LET gameId == playerCurrentGameId[s] IN
    IF gameId \notin DOMAIN gameRooms
    THEN P4Error(s, P4ErrNotInGame)
    ELSE LET game == gameRooms[gameId] IN
         IF game.gameStarted /\ s = game.currentTurnPlayerId
            /\ ~Includes(game.markedNumbers, num)
         THEN Commit(s, P4AdvanceTurn(
                            [rooms |-> [gameRooms EXCEPT
                                           ![gameId].markedNumbers = Append(@, num)],
                             out |-> <<ToRoom(gameId, "numberMarked", num)>>], gameId))
         ELSE IF ~game.gameStarted
         THEN P4Error(s, P4ErrNotStarted)
         ELSE IF s # game.currentTurnPlayerId
         THEN P4Error(s, P4ErrNotYourTurn)
         ELSE P4Error(s, P4ErrAlreadyCalled)

P4MarkNumber(s, num) == Handle(s, P4OnMarkNumber(s, num))

P4OnDeclareWin(s) ==
    LET gameId == playerCurrentGameId[s] IN
    IF gameId \notin DOMAIN gameRooms
    THEN P4Error(s, P4ErrNotInGame)
    ELSE IF gameRooms[gameId].gameStarted /\ s = gameRooms[gameId].currentTurnPlayerId
    THEN Commit(s, [rooms |-> [gameRooms EXCEPT ![gameId].gameStarted = FALSE],
                    out |-> <<ToRoom(gameId, "playerDeclaredWin", s)>>])
    ELSE IF ~gameRooms[gameId].gameStarted
    THEN P4Error(s, P4ErrNotActive)
    ELSE P4Error(s, P4ErrNotYourTurnToWin)

P4DeclareWin(s) == Handle(s, P4OnDeclareWin(s))

P4OnSendMessage(s, message) ==
    IF playerCurrentGameId[s] = Null
    THEN P4Error(s, P4ErrMustJoin)
    ELSE Commit(s, [rooms |-> gameRooms,
                    out |-> <<ToRoom(playerCurrentGameId[s], "message",
                                     [senderId |-> s, message |-> message])>>])

P4SendMessage(s, message) == Handle(s, P4OnSendMessage(s, message))

P4OnResetGame(s) ==
    LET gameId == playerCurrentGameId[s] IN
    IF gameId \notin DOMAIN gameRooms
    THEN P4Error(s, P4ErrNotInGame)
    ELSE IF gameRooms[gameId].gameStarted
    THEN Commit(s, P4ResetGameRoom(Start, gameId))
    ELSE P4Error(s, P4ErrNoActiveGame)

P4ResetGame(s) == Handle(s, P4OnResetGame(s))

P4OnDisconnect(s) ==
    IF playerCurrentGameId[s] # Null
    THEN Commit(s, P4RemovePlayerFromGame(Start, playerCurrentGameId[s], s))
    ELSE Commit(s, Start)

\* the connection is gone afterwards
P4Disconnect(s) ==
    /\ events < MaxEvents
    /\ gameRooms' = P4OnDisconnect(s).rooms
    /\ connected' = connected \ {s}
    /\ events' = events + 1
    /\ UNCHANGED <<playerCurrentGameId, nextSocket>>

P4Next ==
    \/ Connect
    \/ \E s \in connected : P4CreateGame(s)
    \/ \E s \in connected, g \in GameIds : P4JoinGame(s, g)
    \/ \E s \in connected : P4StartGame(s)
    \/ \E s \in connected, n \in Numbers : P4MarkNumber(s, n)
    \/ \E s \in connected : P4DeclareWin(s)
    \/ \E s \in connected, m \in Messages : P4SendMessage(s, m)
    \/ \E s \in connected : P4ResetGame(s)
    \/ \E s \in connected : P4Disconnect(s)

P4Spec == Init /\ [][P4Next]_vars

\* C23: in the server of part_004 no game ever has more than 2 players, and a
\* joinGame of an unbound connection on a game that has 2 players is answered
\* with an error to the sender and changes nothing.
C23_P4ThirdJoinRejected ==
    /\ \A g \in DOMAIN gameRooms : Len(gameRooms[g].players) <= 2
    /\ \A g \in DOMAIN gameRooms : \A s \in connected :
          (playerCurrentGameId[s] = Null /\ Len(gameRooms[g].players) = 2) =>
              /\ Len(P4OnJoinGame(s, g).out) = 1
              /\ P4OnJoinGame(s, g).out[1].sock = s
              /\ P4OnJoinGame(s, g).out[1].ev \in {"error", "gameError"}
              /\ ChangesNothing(P4OnJoinGame(s, g), s)

\* in every started game turnIndex is an index of players and the player at
\* turnIndex is currentTurnPlayerId
P4TurnValidIn(rooms) ==
    \A g \in DOMAIN rooms :
        rooms[g].gameStarted =>
            /\ rooms[g].turnIndex \in 0..(Len(rooms[g].players) - 1)
            /\ rooms[g].players[rooms[g].turnIndex + 1].id = rooms[g].currentTurnPlayerId

\* C24: in the server of part_004, while a game is started turnIndex is an
\* index of players and the player at turnIndex is currentTurnPlayerId, in
\* every reachable state and in the state any disconnect would leave.
C24_P4TurnPointerValid ==
    /\ P4TurnValidIn(gameRooms)
    /\ \A s \in connected : P4TurnValidIn(P4OnDisconnect(s).rooms)

\* C25: a declareWin of a participant of a started round, turn holder or not,
\* sets winnerId to the sender, gameStarted to false and currentTurnPlayerId
\* to null and changes nothing else: players with their seat numbers,
\* markedNumbers, turnIndex, pendingNewMatchRequest, draw, the other rooms and
\* the sender's binding are as before; the win is broadcast to the room.
C25_FirstClaimFrame ==
    \A g \in DOMAIN gameRooms : \A s \in BoundTo(g) :
        gameRooms[g].gameStarted =>
            LET res == OnDeclareWin(s) IN
            /\ res.rooms = [gameRooms EXCEPT ![g].winnerId = s,
                                             ![g].gameStarted = FALSE,
                                             ![g].currentTurnPlayerId = Null]
            /\ res.rooms[g].players = gameRooms[g].players
            /\ res.rooms[g].markedNumbers = gameRooms[g].markedNumbers
            /\ res.rooms[g].turnIndex = gameRooms[g].turnIndex
            /\ res.rooms[g].pendingNewMatchRequest = gameRooms[g].pendingNewMatchRequest
            /\ res.gameId = g
            /\ Broadcasts(res, g, "playerDeclaredWin")

\* a started round with a marked number and the turn at the second seat, in
\* which the participant who does not hold the turn claims the win
C25_Witness ==
    \E g \in DOMAIN gameRooms : \E s \in BoundTo(g) :
        /\ gameRooms[g].gameStarted
        /\ gameRooms[g].markedNumbers # <<>>
        /\ gameRooms[g].turnIndex = 1
        /\ gameRooms[g].currentTurnPlayerId # s
        /\ OnDeclareWin(s).rooms[g].winnerId = s

\* the room is in LOBBY: not started and no outcome recorded
InLobby(room) == ~room.gameStarted /\ room.winnerId = Null /\ ~room.draw

\* the room is CONCLUDED: not started and an outcome recorded
Concluded(room) == ~room.gameStarted /\ (room.winnerId # Null \/ room.draw)

\* C26: a startGame is accepted exactly when the sender's room is in LOBBY with
\* 2 participants; in a started room, in a CONCLUDED room and in a room with
\* fewer than 2 participants it is answered with one sender-only error and
\* changes nothing.
C26_StartOnlyInLobby ==
    \A g \in DOMAIN gameRooms : \A s \in BoundTo(g) :
        \A ti \in {0} \cup FirstTurnIndexes(gameRooms[g]) :
            IF InLobby(gameRooms[g]) /\ Len(gameRooms[g].players) = 2
            THEN OnStartGame(s, ti).rooms[g].gameStarted
            ELSE /\ AnswersError(OnStartGame(s, ti))
                 /\ RejectedCleanly(OnStartGame(s, ti), s)

\* C27: a joinGame is accepted only when the target room is in LOBBY with
\* fewer than 2 participants: a joinGame on a started room or on a CONCLUDED
\* room is answered with an error and adds no participant.
C27_JoinOnlyInLobby ==
    \A g \in DOMAIN gameRooms : \A s \in connected :
        /\ ~AnswersError(OnJoinGame(s, g, Username(s))) =>
              InLobby(gameRooms[g]) /\ Len(gameRooms[g].players) < 2
        /\ (gameRooms[g].gameStarted \/ Concluded(gameRooms[g])) =>
              OnJoinGame(s, g, Username(s)).rooms[g].players = gameRooms[g].players

\* C28: a CONCLUDED room with both participants, who both stay, leaves
\* CONCLUDED (back to LOBBY or into a new round) only in a step that is the
\* acceptNewMatch of the participant who did not make the pending request.
C28_RematchIsTwoStep ==
    [][\A g \in DOMAIN gameRooms :
           (/\ Concluded(gameRooms[g])
            /\ Len(gameRooms[g].players) = 2
            /\ g \in DOMAIN gameRooms'
            /\ gameRooms'[g].players = gameRooms[g].players
            /\ ~Concluded(gameRooms'[g])) =>
               /\ gameRooms[g].pendingNewMatchRequest # NoRequest
               /\ \E s \in BoundTo(g) :
                      /\ s # gameRooms[g].pendingNewMatchRequest.requesterId
                      /\ AcceptNewMatch(s)
      ]_vars

\* declineNewMatch of s is accepted in the current state
DeclineAnswers(s) == AcceptAnswers(s)

\* C29: an accepted declineNewMatch sets pendingNewMatchRequest of the
\* sender's room to none and changes nothing else (players with their seat
\* numbers, gameStarted, currentTurnPlayerId, turnIndex, markedNumbers,
\* winnerId, draw, the other rooms, the sender's binding); newMatchDeclined
\* goes to the requester and to the sender; afterwards a requestNewMatch of
\* either participant of the two-player room is accepted again.
C29_DeclineFrame ==
    \A s \in connected :
        DeclineAnswers(s) =>
            LET g == playerCurrentGameId[s]
                res == OnDeclineNewMatch(s)
            IN /\ res.rooms = [gameRooms EXCEPT ![g].pendingNewMatchRequest = NoRequest]
               /\ res.gameId = g
               /\ Concluded(gameRooms[g]) => Concluded(res.rooms[g])
               /\ \E i \in DOMAIN res.out :
                      res.out[i].ev = "newMatchDeclined" /\ res.out[i].sock = s
               /\ gameRooms[g].pendingNewMatchRequest.requesterId \in PlayerIds(gameRooms[g]) =>
                      \E i \in DOMAIN res.out :
                          /\ res.out[i].ev = "newMatchDeclined"
                          /\ res.out[i].sock = gameRooms[g].pendingNewMatchRequest.requesterId
               /\ Len(gameRooms[g].players) = 2 =>
                      \A p \in PlayerIds(gameRooms[g]) :
                          RequestNewMatchIn(res.rooms, p).rooms[g].pendingNewMatchRequest.requesterId
                              = p

\* a concluded round with a winner and a marked number whose pending rematch
\* request the other participant can decline
C29_Witness ==
    \E s \in connected :
        /\ DeclineAnswers(s)
        /\ gameRooms[playerCurrentGameId[s]].winnerId # Null
        /\ gameRooms[playerCurrentGameId[s]].markedNumbers # <<>>
        /\ Len(gameRooms[playerCurrentGameId[s]].players) = 2
        /\ OnDeclineNewMatch(s).rooms[playerCurrentGameId[s]].pendingNewMatchRequest = NoRequest

\* every gameState the handler sent to a room carries the state the room has
\* when the handler ends
SnapshotsAreFinal(res) ==
    \A i \in DOMAIN res.out :
        res.out[i].ev = "gameState" =>
            /\ res.out[i].room \in DOMAIN res.rooms
            /\ res.out[i].data = Snapshot(res.rooms[res.out[i].room])

\* C30: every gameState snapshot a handler sends to a room equals the room's
\* state at the end of that handler; none shows an intermediate state such as
\* gameStarted = true with fewer than 2 participants during a departure.
C30_NoPartialBroadcast ==
    \A s \in connected :
        /\ \A g \in FreeGameIds : SnapshotsAreFinal(OnCreateGame(s, Username(s), g))
        /\ \A g \in GameIds : SnapshotsAreFinal(OnJoinGame(s, g, Username(s)))
        /\ \A ti \in {0} \cup (IF playerCurrentGameId[s] \in DOMAIN gameRooms
                               THEN FirstTurnIndexes(gameRooms[playerCurrentGameId[s]])
                               ELSE {}) :
              SnapshotsAreFinal(OnStartGame(s, ti))
        /\ \A n \in Numbers : SnapshotsAreFinal(OnMarkNumber(s, n))
        /\ SnapshotsAreFinal(OnDeclareWin(s))
        /\ SnapshotsAreFinal(OnRequestNewMatch(s))
        /\ SnapshotsAreFinal(OnAcceptNewMatch(s))
        /\ SnapshotsAreFinal(OnDeclineNewMatch(s))
        /\ SnapshotsAreFinal(OnResetGame(s))
        /\ SnapshotsAreFinal(OnLeaveGame(s))
        /\ SnapshotsAreFinal(OnDisconnect(s))
        /\ \A i \in DOMAIN OnLeaveGame(s).out :
              OnLeaveGame(s).out[i].ev = "gameState" =>
                  ~(/\ OnLeaveGame(s).out[i].data.gameStarted
                    /\ Len(OnLeaveGame(s).out[i].data.players) < 2)

\* for every room the handler created or changed, the last gameState it sent
\* to that room carries the state the room has when the handler ends
LastSnapshotIsCurrent(res) ==
    \A g \in DOMAIN res.rooms :
        (g \notin DOMAIN gameRooms \/ res.rooms[g] # gameRooms[g]) =>
            \E i \in DOMAIN res.out :
                /\ res.out[i].ev = "gameState"
                /\ res.out[i].room = g
                /\ res.out[i].data = Snapshot(res.rooms[g])
                /\ \A j \in (i + 1)..Len(res.out) :
                       ~(res.out[j].ev = "gameState" /\ res.out[j].room = g)

\* C31: after every handler that created or changed a room that is still
\* registered, the last gameState snapshot the handler broadcast to that room
\* equals the room's state at the end of the handler (participants,
\* gameStarted, currentTurnPlayerId, markedNumbers, winnerId, draw,
\* pendingNewMatchRequest).
C31_NoStaleView ==
    \A s \in connected :
        /\ \A g \in FreeGameIds : LastSnapshotIsCurrent(OnCreateGame(s, Username(s), g))
        /\ \A g \in GameIds : LastSnapshotIsCurrent(OnJoinGame(s, g, Username(s)))
        /\ \A ti \in {0} \cup (IF playerCurrentGameId[s] \in DOMAIN gameRooms
                               THEN FirstTurnIndexes(gameRooms[playerCurrentGameId[s]])
                               ELSE {}) :
              LastSnapshotIsCurrent(OnStartGame(s, ti))
        /\ \A n \in Numbers : LastSnapshotIsCurrent(OnMarkNumber(s, n))
        /\ LastSnapshotIsCurrent(OnDeclareWin(s))
        /\ LastSnapshotIsCurrent(OnRequestNewMatch(s))
        /\ LastSnapshotIsCurrent(OnAcceptNewMatch(s))
        /\ LastSnapshotIsCurrent(OnDeclineNewMatch(s))
        /\ \A m \in Messages : LastSnapshotIsCurrent(OnSendMessage(s, m))
        /\ LastSnapshotIsCurrent(OnResetGame(s))
        /\ LastSnapshotIsCurrent(OnLeaveGame(s))
        /\ LastSnapshotIsCurrent(OnDisconnect(s))

\* the turn holder of a started round with a marked number departs: the room
\* is sent several snapshots and the last one shows the reset room
C31_Witness ==
    \E g \in DOMAIN gameRooms : \E s \in BoundTo(g) :
        /\ gameRooms[g].gameStarted
        /\ gameRooms[g].currentTurnPlayerId = s
        /\ gameRooms[g].markedNumbers # <<>>
        /\ Cardinality({i \in DOMAIN OnLeaveGame(s).out :
                           OnLeaveGame(s).out[i].ev = "gameState"}) >= 2
        /\ ~OnLeaveGame(s).rooms[g].gameStarted
        /\ LastSnapshotIsCurrent(OnLeaveGame(s))

\* C32: for every live connection, handling leaveGame and handling disconnect
\* in the same state end with the same registry, hence the same fields of
\* every room (participants, gameStarted, turnIndex, currentTurnPlayerId,
\* markedNumbers, outcome, pending request), and send the same events to the
\* same rooms; they differ in the binding: leaveGame of a connection bound to
\* a registered room unbinds it, disconnect leaves the closure variable as it
\* was.
C32_LeaveEqualsDisconnect ==
    \A s \in connected :
        /\ OnLeaveGame(s).rooms = OnDisconnect(s).rooms
        /\ Len(OnLeaveGame(s).out) = Len(OnDisconnect(s).out)
        /\ \A i \in DOMAIN OnLeaveGame(s).out :
              /\ OnLeaveGame(s).out[i].ev = OnDisconnect(s).out[i].ev
              /\ OnLeaveGame(s).out[i].room = OnDisconnect(s).out[i].room
        /\ OnDisconnect(s).gameId = playerCurrentGameId[s]
        /\ OnLeaveGame(s).gameId =
               IF playerCurrentGameId[s] \in DOMAIN gameRooms
               THEN Null ELSE playerCurrentGameId[s]

\* the departure of the turn holder, in the second seat, of a started round
\* with a marked number, which resets the round either way
C32_Witness ==
    \E g \in DOMAIN gameRooms : \E s \in BoundTo(g) :
        /\ gameRooms[g].gameStarted
        /\ gameRooms[g].currentTurnPlayerId = s
        /\ gameRooms[g].turnIndex = 1
        /\ gameRooms[g].markedNumbers # <<>>
        /\ ~OnLeaveGame(s).rooms[g].gameStarted
        /\ OnLeaveGame(s).rooms = OnDisconnect(s).rooms
        /\ OnLeaveGame(s).gameId = Null
        /\ OnDisconnect(s).gameId = g

\* C33: every started room has exactly 2 participants; consequently no
\* joinGame, of any connection on any code, is answered with the 'already
\* started' error: on a started room the 'full' check comes first.
C33_StartedHasTwoPlayers ==
    /\ \A g \in DOMAIN gameRooms :
          gameRooms[g].gameStarted => Len(gameRooms[g].players) = 2
    /\ \A s \in connected : \A g \in GameIds :
          \A i \in DOMAIN OnJoinGame(s, g, Username(s)).out :
              OnJoinGame(s, g, Username(s)).out[i].ev = "gameError" =>
                  OnJoinGame(s, g, Username(s)).out[i].data # ErrStarted

\* an unbound connection tries to join a started round with a marked number
\* and is told the room is full
C33_Witness ==
    \E g \in DOMAIN gameRooms : \E s \in connected :
        /\ gameRooms[g].gameStarted
        /\ gameRooms[g].markedNumbers # <<>>
        /\ playerCurrentGameId[s] = Null
        /\ IsOnlyError(OnJoinGame(s, g, Username(s)), s, ErrFull)

\* C34: the round flags are consistent in every reachable state: a started
\* room has no winner, no draw and no pending rematch request; a room that is
\* not started has no turn holder; a draw has a winner and is not started.
\* Hence every accepted markNumber advances the turn: the branch that skips
\* the advance because an outcome exists is never taken.
C34_FlagsConsistent ==
    /\ \A g \in DOMAIN gameRooms :
          /\ gameRooms[g].gameStarted =>
                /\ gameRooms[g].winnerId = Null
                /\ ~gameRooms[g].draw
                /\ gameRooms[g].pendingNewMatchRequest = NoRequest
          /\ ~gameRooms[g].gameStarted => gameRooms[g].currentTurnPlayerId = Null
          /\ gameRooms[g].draw =>
                gameRooms[g].winnerId # Null /\ ~gameRooms[g].gameStarted
    /\ \A s \in connected : \A n \in Numbers :
          OnMarkNumber(s, n).out[1].ev = "numberMarked" =>
              /\ Len(OnMarkNumber(s, n).out) = 2
              /\ OnMarkNumber(s, n).out[2].ev = "gameState"
              /\ OnMarkNumber(s, n).rooms[playerCurrentGameId[s]].currentTurnPlayerId # s

\* a draw reached after a round in which a number was marked
C34_Witness ==
    \E g \in DOMAIN gameRooms :
        /\ gameRooms[g].draw
        /\ gameRooms[g].winnerId # Null
        /\ ~gameRooms[g].gameStarted
        /\ gameRooms[g].currentTurnPlayerId = Null
        /\ gameRooms[g].markedNumbers # <<>>

\* C35: a room in LOBBY (not started, no winner, no draw) has no marked
\* numbers, in every reachable state.
C35_LobbyPoolEmpty ==
    \A g \in DOMAIN gameRooms :
        InLobby(gameRooms[g]) => gameRooms[g].markedNumbers = <<>>

\* a started round with a marked number that a participant's leaveGame sends
\* back to LOBBY, with the pool emptied
C35_Witness ==
    \E g \in DOMAIN gameRooms : \E s \in BoundTo(g) :
        /\ gameRooms[g].gameStarted
        /\ gameRooms[g].markedNumbers # <<>>
        /\ g \in DOMAIN OnLeaveGame(s).rooms
        /\ InLobby(OnLeaveGame(s).rooms[g])
        /\ OnLeaveGame(s).rooms[g].markedNumbers = <<>>

\* C36: the recorded outcome never refers to someone who is gone: in every
\* reachable state a non-null winnerId is the id of a current participant of
\* the room.
C36_WinnerIsParticipant ==
    \A g \in DOMAIN gameRooms :
        gameRooms[g].winnerId # Null => gameRooms[g].winnerId \in PlayerIds(gameRooms[g])

\* C37: a pending rematch request never outlives its parties: in every
\* reachable state with a pending request the room has 2 participants and the
\* requester is one of them, so a participant left alone in a not-started
\* room is never refused a resetGame.
C37_RequestHasItsParties ==
    /\ \A g \in DOMAIN gameRooms :
          gameRooms[g].pendingNewMatchRequest # NoRequest =>
              /\ Len(gameRooms[g].players) = 2
              /\ gameRooms[g].pendingNewMatchRequest.requesterId \in PlayerIds(gameRooms[g])
    /\ \A g \in DOMAIN gameRooms : \A s \in BoundTo(g) :
          (~gameRooms[g].gameStarted /\ PlayerIds(gameRooms[g]) = {s}) =>
              ~AnswersError(OnResetGame(s))

\* C38: seat numbers identify seats: in every reachable state the playerNumber
\* values of the participants of one room are pairwise distinct and each
\* equals the participant's 1-based position in the participant list.
C38_SeatNumberIsPosition ==
    \A g \in DOMAIN gameRooms :
        /\ \A i \in DOMAIN gameRooms[g].players : gameRooms[g].players[i].playerNumber = i
        /\ \A i, j \in DOMAIN gameRooms[g].players :
              i # j => gameRooms[g].players[i].playerNumber # gameRooms[g].players[j].playerNumber

\* s is a participant of the room registered under code c
MemberOf(s, c) == c \in DOMAIN gameRooms /\ s \in PlayerIds(gameRooms[c])

\* C39: binding and membership agree: in every reachable state a live
\* connection's playerCurrentGameId is a code c if and only if the registry has
\* a room c whose participant list contains the connection; after the
\* leaveGame of a bound connection it is unbound and in no participant list,
\* and no createGame or joinGame of it is answered with 'already in a game'.
C39_BindingIsMembership ==
    /\ [](\A s \in connected : \A c \in GameIds :
              playerCurrentGameId[s] = c <=> MemberOf(s, c))
    /\ [][\A s \in connected :
              (playerCurrentGameId[s] # Null /\ LeaveGame(s)) =>
                  /\ playerCurrentGameId'[s] = Null
                  /\ \A c \in DOMAIN gameRooms' : s \notin PlayerIds(gameRooms'[c])
                  /\ \A c \in GameIds :
                        /\ ~IsOnlyError(OnCreateGame(s, Username(s), c), s, ErrAlreadyInGame)'
                        /\ ~IsOnlyError(OnJoinGame(s, c, Username(s)), s, ErrAlreadyInGame)'
      ]_vars

\* a connection that left its room, which lives on with the other participant,
\* and that can join it again
C39_Witness ==
    \E s \in connected : \E c \in DOMAIN gameRooms :
        /\ playerCurrentGameId[s] = Null
        /\ Len(gameRooms[c].players) = 1
        /\ gameRooms[c].players[1].playerNumber = 2
        /\ ~AnswersError(OnJoinGame(s, c, Username(s)))

\* the answer res of connection t to a request already resolved in rooms: one
\* gameError to t alone, the registry and t's binding as they were
SecondAnswerRefused(res, rooms, t, text) ==
    /\ IsOnlyError(res, t, text)
    /\ res.out[1].room = Null
    /\ res.rooms = rooms
    /\ res.gameId = playerCurrentGameId[t]

\* C40: a pending rematch request is resolved at most once: when an
\* acceptNewMatch and a declineNewMatch (or two accepts, or two declines) for
\* the same pending request are processed back to back, the first takes effect
\* (the reset, or the clearing of the request) and the second, of whichever
\* participant, is answered with one sender-only error and changes nothing.
C40_ResolvedAtMostOnce ==
    \A s \in connected :
        AcceptAnswers(s) =>
            LET g == playerCurrentGameId[s]
                accepted == AcceptNewMatchIn(gameRooms, s).rooms
                declined == DeclineNewMatchIn(gameRooms, s).rooms
            IN /\ accepted[g] = ClearedRound(gameRooms[g])
               /\ declined[g] = [gameRooms[g] EXCEPT !.pendingNewMatchRequest = NoRequest]
               /\ accepted # gameRooms /\ declined # gameRooms
               /\ \A t \in BoundTo(g) :
                     /\ SecondAnswerRefused(AcceptNewMatchIn(accepted, t), accepted, t, ErrNoAccept)
                     /\ SecondAnswerRefused(DeclineNewMatchIn(accepted, t), accepted, t, ErrNoDecline)
                     /\ SecondAnswerRefused(AcceptNewMatchIn(declined, t), declined, t, ErrNoAccept)
                     /\ SecondAnswerRefused(DeclineNewMatchIn(declined, t), declined, t, ErrNoDecline)

\* a request pending after a won round with a marked number, which the other
\* participant can answer, and whose second answer is refused
C40_Witness ==
    \E s \in connected :
        /\ AcceptAnswers(s)
        /\ gameRooms[playerCurrentGameId[s]].winnerId # Null
        /\ gameRooms[playerCurrentGameId[s]].markedNumbers # <<>>
        /\ AnswersError(DeclineNewMatchIn(AcceptNewMatchIn(gameRooms, s).rooms, s))
        /\ AnswersError(AcceptNewMatchIn(DeclineNewMatchIn(gameRooms, s).rooms, s))
====
